---------------------------- MODULE Spec2Model ----------------------------
(***************************************************************************)
(* A model of the stabilisation and publish-gating pipeline of             *)
(* image_processing.py (ObjectTracker, TextStabilizer, is_text_meaningful, *)
(* get_objects_from_cloud_api, camera_capture_loop), of the publish sink   *)
(* Characteristic.send_update of gatt_server.py and of the connectivity    *)
(* writer internet_status_updater_loop of gatt_server_executable.py.       *)
(*                                                                         *)
(* A Python str is modelled as a sequence of one-character strings, so     *)
(* that splitting, joining, lower-casing, sorting and fuzzy matching are   *)
(* computed character by character as the code computes them.  Python's    *)
(* None is the value None below, which is no such sequence.                *)
(***************************************************************************)
EXTENDS Integers, Sequences, FiniteSets, TLC

VARIABLES
    tracker,                 \* ObjectTracker instance
    text_stabilizer,         \* TextStabilizer instance
    frame_count,             \* camera_capture_loop local
    ocr_yolo_cycle_count,    \* camera_capture_loop local
    last_sent_objects_str,   \* camera_capture_loop local
    shared_state,            \* shared_state dict of gatt_server_executable
    characteristic_objects,  \* YoloCharacteristic instance
    characteristic_texts,    \* OcrPaddle instance
    cycle,                   \* observation of the latest loop iteration / call
    objects_log,             \* every value handed to characteristic_objects.send_update
    texts_log,               \* every value handed to characteristic_texts.send_update
    fed,                     \* every input fed so far to the component under study
    ctor_args,               \* the arguments the component under study was built with
    reference,               \* local-only reference pipeline fed the same frames
    loop_status,             \* camera_capture_loop: "running" or "terminated"
    frames_captured,         \* how many reads of the camera have succeeded
    internet_check_event,    \* the flag of the threading.Event
    updater                  \* internet_status_updater_loop: position and local

vars == <<tracker, text_stabilizer, frame_count, ocr_yolo_cycle_count,
          last_sent_objects_str, shared_state, characteristic_objects,
          characteristic_texts, cycle, objects_log, texts_log, fed, ctor_args,
          reference, loop_status, frames_captured, internet_check_event,
          updater>>

-----------------------------------------------------------------------------
(* Bounds of the model.                                                    *)

MaxUpdates == 6      \* ObjectTracker.update calls in one run of SpecTracker
MaxWindow == 5       \* largest window_size SpecTracker constructs
MaxCalls == 5        \* TextStabilizer.update calls in one run of SpecText
MaxStability == 3    \* largest stability_count SpecText constructs
MaxFrames == 8      \* frames captured in one run of Spec or SpecLoop
MaxReadFailures == 2 \* consecutive failed reads that are told apart
MaxTextFrames == 14  \* frames captured in one run of SpecTextChannel
MaxNetEvents == 8    \* steps of the updater and set() calls in one run of SpecNet

-----------------------------------------------------------------------------
(* Python values.                                                          *)

None == <<"None">>

Min(a, b) == IF a <= b THEN a ELSE b

Max(a, b) == IF a >= b THEN a ELSE b

Last(s) == s[Len(s)]

\* set(list)
ToSet(list) == {list[i] : i \in 1..Len(list)}

\* str.isspace for the characters str.split() treats as separators
WhitespaceChars == {" ", "\t", "\n", "\r"}

\* Unicode code points of the characters that occur in the model
CodePoints ==
    " " :> 32 @@ "," :> 44 @@ "|" :> 124 @@ "B" :> 66 @@
    "\t" :> 9 @@ "\n" :> 10 @@ "\r" :> 13 @@
    "a" :> 97 @@ "b" :> 98 @@ "c" :> 99 @@ "d" :> 100 @@ "e" :> 101 @@
    "f" :> 102 @@ "g" :> 103 @@ "h" :> 104 @@ "i" :> 105 @@ "j" :> 106 @@
    "k" :> 107 @@ "l" :> 108 @@ "m" :> 109 @@ "n" :> 110 @@ "o" :> 111 @@
    "p" :> 112 @@ "q" :> 113 @@ "r" :> 114 @@ "s" :> 115 @@ "t" :> 116 @@
    "u" :> 117 @@ "v" :> 118 @@ "w" :> 119 @@ "x" :> 120 @@ "y" :> 121 @@
    "z" :> 122 @@ "á" :> 225 @@ "ã" :> 227 @@ "ô" :> 244

\* ord(c)
ord(c) == CodePoints[c]

\* the lower-case letter of each upper-case letter
LowerOf ==
    "A" :> "a" @@ "B" :> "b" @@ "C" :> "c" @@ "D" :> "d" @@ "E" :> "e" @@
    "F" :> "f" @@ "G" :> "g" @@ "H" :> "h" @@ "I" :> "i" @@ "J" :> "j" @@
    "K" :> "k" @@ "L" :> "l" @@ "M" :> "m" @@ "N" :> "n" @@ "O" :> "o" @@
    "P" :> "p" @@ "Q" :> "q" @@ "R" :> "r" @@ "S" :> "s" @@ "T" :> "t" @@
    "U" :> "u" @@ "V" :> "v" @@ "W" :> "w" @@ "X" :> "x" @@ "Y" :> "y" @@
    "Z" :> "z"

UpperLetters == DOMAIN LowerOf

\* c.lower() for one character
LowerChar(c) == IF c \in UpperLetters THEN LowerOf[c] ELSE c

\* s.lower()
RECURSIVE lower(_)
lower(s) ==
    IF Len(s) = 0 THEN <<>> ELSE <<LowerChar(s[1])>> \o lower(Tail(s))

\* s < t for Python strings: lexicographic by code point
RECURSIVE StrLess(_, _)
StrLess(s, t) ==
    IF Len(t) = 0 THEN FALSE
    ELSE IF Len(s) = 0 THEN TRUE
    ELSE IF s[1] = t[1] THEN StrLess(Tail(s), Tail(t))
    ELSE ord(s[1]) < ord(t[1])

\* sep.join(parts)
RECURSIVE join(_, _)
join(sep, parts) ==
    IF Len(parts) = 0 THEN <<>>
    ELSE IF Len(parts) = 1 THEN parts[1]
    ELSE parts[1] \o sep \o join(sep, Tail(parts))

\* s.split(): the maximal runs of non-whitespace characters, in order
RECURSIVE SplitFrom(_, _, _)
SplitFrom(s, i, word) ==
    IF i > Len(s)
    THEN IF Len(word) = 0 THEN <<>> ELSE <<word>>
    ELSE IF s[i] \in WhitespaceChars
    THEN (IF Len(word) = 0 THEN <<>> ELSE <<word>>) \o SplitFrom(s, i + 1, <<>>)
    ELSE SplitFrom(s, i + 1, Append(word, s[i]))

split(s) == SplitFrom(s, 1, <<>>)

\* s.lstrip()
RECURSIVE lstrip(_)
lstrip(s) ==
    IF Len(s) = 0 THEN s
    ELSE IF s[1] \in WhitespaceChars THEN lstrip(Tail(s))
    ELSE s

\* s.rstrip()
RECURSIVE rstrip(_)
rstrip(s) ==
    IF Len(s) = 0 THEN s
    ELSE IF s[Len(s)] \in WhitespaceChars THEN rstrip(SubSeq(s, 1, Len(s) - 1))
    ELSE s

\* s.strip()
strip(s) == rstrip(lstrip(s))

\* s.split(sep) for a one-character sep: the pieces between the separators,
\* empty pieces included
RECURSIVE SplitSepFrom(_, _, _, _)
SplitSepFrom(s, sep, i, piece) ==
    IF i > Len(s) THEN <<piece>>
    ELSE IF s[i] = sep THEN <<piece>> \o SplitSepFrom(s, sep, i + 1, <<>>)
    ELSE SplitSepFrom(s, sep, i + 1, Append(piece, s[i]))

split_sep(s, sep) == SplitSepFrom(s, sep, 1, <<>>)

\* s.startswith(prefix)
startswith(s, prefix) ==
    /\ Len(s) >= Len(prefix)
    /\ SubSeq(s, 1, Len(prefix)) = prefix

\* mutant of SortedList: the greatest string comes first
RECURSIVE SortedList_Descending(_)
SortedList_Descending(S) ==
    IF S = {} THEN <<>>
    ELSE LET greatest == CHOOSE x \in S : \A y \in S \ {x} : StrLess(y, x)
         IN <<greatest>> \o SortedList_Descending(S \ {greatest})

\* sorted(set_of_strings): the list.sort() of the loop
RECURSIVE SortedList(_)
SortedList(S) ==
    IF S = {} THEN <<>>
    ELSE LET least == CHOOSE x \in S : \A y \in S \ {x} : StrLess(x, y)
         IN <<least>> \o SortedList(S \ {least})


-----------------------------------------------------------------------------
(* The texts of the model.                                                 *)

bom_dia == <<"b","o","m"," ","d","i","a">>

rua_sete == <<"r","u","a"," ","s","e","t","e">>

\* the raw texts SpecText feeds to the stabilizer
RawTexts ==
    {<<>>,
     <<" ">>,
     bom_dia,
     <<" ","b","o","m"," "," ","d","i","a">>,
     <<"B","o","m"," ","d","i","a","s">>,
     rua_sete}

\* the lower-cased, whitespace-normalised non-empty texts of the model
ComparedTexts ==
    {lower(join(<<" ">>, split(t))) : t \in RawTexts} \ {<<>>}

-----------------------------------------------------------------------------
(* fuzz.ratio of fuzzywuzzy: int(round(100 * SequenceMatcher(None, s1,     *)
(* s2).ratio())), and 0 when either string is empty.  SequenceMatcher is   *)
(* difflib's: the longest common block (of the longest ones the one that   *)
(* starts earliest in s1, then earliest in s2), then recursively the pieces*)
(* to its left and to its right; ratio() is 2 * matches / (len(s1) +       *)
(* len(s2)).  The result depends on the order of the arguments.            *)

CommonBlocks(a, b) ==
    {m \in (1..Len(a)) \X (1..Len(b)) \X (1..Min(Len(a), Len(b))) :
        /\ m[1] + m[3] - 1 <= Len(a)
        /\ m[2] + m[3] - 1 <= Len(b)
        /\ SubSeq(a, m[1], m[1] + m[3] - 1) = SubSeq(b, m[2], m[2] + m[3] - 1)}

\* SequenceMatcher.find_longest_match
find_longest_match(a, b) ==
    LET blocks == CommonBlocks(a, b)
    IN IF blocks = {} THEN <<1, 1, 0>>
       ELSE CHOOSE m \in blocks : \A o \in blocks :
                \/ m[3] > o[3]
                \/ m[3] = o[3] /\ m[1] < o[1]
                \/ m[3] = o[3] /\ m[1] = o[1] /\ m[2] <= o[2]

\* the sum of the sizes of SequenceMatcher.get_matching_blocks
RECURSIVE MatchingChars(_, _)
MatchingChars(a, b) ==
    IF Len(a) = 0 \/ Len(b) = 0 THEN 0
    ELSE LET m == find_longest_match(a, b)
         IN IF m[3] = 0 THEN 0
            ELSE m[3]
                 + MatchingChars(SubSeq(a, 1, m[1] - 1), SubSeq(b, 1, m[2] - 1))
                 + MatchingChars(SubSeq(a, m[1] + m[3], Len(a)),
                                 SubSeq(b, m[2] + m[3], Len(b)))

\* int(round(n / d)) for n >= 0, d > 0: Python rounds a tie to the even integer
RoundHalfEven(n, d) ==
    LET q == n \div d
        r == n % d
    IN IF 2 * r < d THEN q
       ELSE IF 2 * r > d THEN q + 1
       ELSE IF q % 2 = 0 THEN q ELSE q + 1

\* utils.intr(100 * SequenceMatcher(None, s1, s2).ratio())
SequenceMatcherRatio(s1, s2) ==
    RoundHalfEven(100 * 2 * MatchingChars(s1, s2), Len(s1) + Len(s2))

\* the ratios of the texts the model compares, computed once
KnownRatios ==
    {<<s1, s2, SequenceMatcherRatio(s1, s2)>> : s1 \in ComparedTexts, s2 \in ComparedTexts}

fuzz_ratio(s1, s2) ==
    IF Len(s1) = 0 \/ Len(s2) = 0 THEN 0
    ELSE IF s1 \in ComparedTexts /\ s2 \in ComparedTexts
    THEN (CHOOSE k \in KnownRatios : k[1] = s1 /\ k[2] = s2)[3]
    ELSE SequenceMatcherRatio(s1, s2)

-----------------------------------------------------------------------------
(* image_processing.py: module constants.                                  *)

MIN_TEXT_SIMILARITY_RATIO == 85

MIN_WORD_COUNT_FOR_MEANINGFUL_TEXT == 2

MIN_AVG_WORD_LENGTH == 2

\* English class names, as YOLO and the cloud API name them
person == <<"p","e","r","s","o","n">>
car == <<"c","a","r">>
traffic_light == <<"t","r","a","f","f","i","c"," ","l","i","g","h","t">>
bus == <<"b","u","s">>
dog == <<"d","o","g">>

\* Portuguese labels
pessoa == <<"p","e","s","s","o","a">>
carro == <<"c","a","r","r","o">>
semaforo == <<"s","e","m","á","f","o","r","o">>
onibus == <<"ô","n","i","b","u","s">>

\* allowed_objects, restricted to the classes the model's frames contain
allowed_objects == {person, car, bus, traffic_light}

\* translation_dict, restricted likewise: pairs <<class name, label>>
translation_dict ==
    {<<person, pessoa>>, <<car, carro>>, <<bus, onibus>>,
     <<traffic_light, semaforo>>}

\* translation_dict.get(key, default)
translation_dict_get(key, default) ==
    IF \E p \in translation_dict : p[1] = key
    THEN (CHOOSE p \in translation_dict : p[1] = key)[2]
    ELSE default

-----------------------------------------------------------------------------
(* class ObjectTracker.                                                    *)

\* int(x) of the quotient n / d: truncation toward zero
IntTrunc(n, d) == IF n >= 0 THEN n \div d ELSE -((-n) \div d)

\* mutant of StabilityCountThreshold: a threshold of 0 is left at 0
StabilityCountThreshold_NoClamp(window_size, ratio) ==
    IntTrunc(window_size * ratio.num, ratio.den)

\* stability_count_threshold as __init__ computes it; ratio is num / den
StabilityCountThreshold(window_size, ratio) ==
    LET t == IntTrunc(window_size * ratio.num, ratio.den)
    IN IF t = 0 /\ window_size > 0 THEN 1 ELSE t

ObjectTracker_init(window_size, ratio) ==
    [history |-> <<>>,
     window_size |-> window_size,
     stability_count_threshold |-> StabilityCountThreshold(window_size, ratio),
     currently_stable_objects |-> {}]

\* mutant of deque_append: nothing is ever dropped
deque_append_Unbounded(history, maxlen, x) == Append(history, x)

\* mutant of deque_append: when full, the new element is the one dropped
deque_append_DropsNewest(history, maxlen, x) ==
    IF Len(history) >= maxlen THEN history ELSE Append(history, x)

\* deque(maxlen).append(x): the oldest element is dropped when full
deque_append(history, maxlen, x) ==
    IF maxlen = 0 THEN history
    ELSE IF Len(history) >= maxlen THEN Append(Tail(history), x)
    ELSE Append(history, x)

\* the count of the frames of the history that contain obj_name
CountIn(history, obj_name) ==
    Cardinality({i \in 1..Len(history) : obj_name \in history[i]})

\* mutant of StableObjects: the count has to exceed the threshold
StableObjects_Strict(history, threshold) ==
    LET possible_objects == UNION {history[i] : i \in 1..Len(history)}
    IN IF Len(history) = 0 THEN {}
       ELSE {obj_name \in possible_objects :
                CountIn(history, obj_name) > threshold}

\* mutant of StableObjects: the threshold shrinks to the history's length
StableObjects_RelativeToHistory(history, threshold) ==
    LET possible_objects == UNION {history[i] : i \in 1..Len(history)}
    IN {obj_name \in possible_objects :
           CountIn(history, obj_name) >= Min(threshold, Len(history))}

\* the stable set update recomputes from the history
StableObjects(history, threshold) ==
    LET possible_objects == UNION {history[i] : i \in 1..Len(history)}
    IN IF Len(history) = 0 THEN {}
       ELSE {obj_name \in possible_objects :
                CountIn(history, obj_name) >= threshold}

\* mutant of ObjectTracker_update: a label once stable stays stable
ObjectTracker_update_KeepsStable(t, current_frame_detections_list) ==
    LET history == deque_append(t.history, t.window_size,
                                ToSet(current_frame_detections_list))
    IN [t EXCEPT !.history = history,
                 !.currently_stable_objects =
                     t.currently_stable_objects \cup
                     StableObjects(history, t.stability_count_threshold)]

ObjectTracker_update(t, current_frame_detections_list) ==
    LET history == deque_append(t.history, t.window_size,
                                ToSet(current_frame_detections_list))
    IN [t EXCEPT !.history = history,
                 !.currently_stable_objects =
                     StableObjects(history, t.stability_count_threshold)]

\* list(self.currently_stable_objects): the order of the list is the set's
get_stable_objects(t) == t.currently_stable_objects

-----------------------------------------------------------------------------
(* is_text_meaningful.                                                     *)

RECURSIVE SumLen(_)
SumLen(words) ==
    IF Len(words) = 0 THEN 0 ELSE Len(words[1]) + SumLen(Tail(words))

is_text_meaningful(text_list) ==
    LET full_text == join(<<" ">>, text_list)
        words == split(full_text)
    IN IF Len(text_list) = 0 THEN <<>>
       ELSE IF Len(words) = 0 THEN <<>>
       ELSE IF Len(words) < MIN_WORD_COUNT_FOR_MEANINGFUL_TEXT THEN <<>>
       \* avg_word_len = sum / len(words) < MIN_AVG_WORD_LENGTH
       ELSE IF SumLen(words) < MIN_AVG_WORD_LENGTH * Len(words) THEN <<>>
       ELSE text_list

-----------------------------------------------------------------------------
(* class TextStabilizer.                                                   *)

TextStabilizer_init(similarity_threshold, stability_count) ==
    [similarity_threshold |-> similarity_threshold,
     stability_count |-> stability_count,
     current_candidate_text |-> <<>>,
     current_candidate_counter |-> 0,
     last_effectively_sent_text |-> None]

\* " ".join(new_text_raw.split())
CleanText(new_text_raw) == join(<<" ">>, split(new_text_raw))

\* whether a text counts as the same as another one
IsSimilar(ts, s1, s2) ==
    fuzz_ratio(lower(s1), lower(s2)) >= ts.similarity_threshold

\* mutant of CandidateStep: a different text takes over the old counter
CandidateStep_KeepsCounter(ts, new_text_cleaned) ==
    IF Len(new_text_cleaned) > 0
    THEN IF /\ Len(ts.current_candidate_text) > 0
            /\ IsSimilar(ts, new_text_cleaned, ts.current_candidate_text)
         THEN [ts EXCEPT !.current_candidate_counter = @ + 1]
         ELSE [ts EXCEPT !.current_candidate_text = new_text_cleaned,
                         !.current_candidate_counter = @ + 1]
    ELSE IF Len(ts.current_candidate_text) > 0
         THEN [ts EXCEPT !.current_candidate_text = <<>>,
                         !.current_candidate_counter = 0]
         ELSE ts

\* mutant of CandidateStep: a similar text takes the candidate's place
CandidateStep_AdoptsSimilarText(ts, new_text_cleaned) ==
    IF Len(new_text_cleaned) > 0
    THEN IF /\ Len(ts.current_candidate_text) > 0
            /\ IsSimilar(ts, new_text_cleaned, ts.current_candidate_text)
         THEN [ts EXCEPT !.current_candidate_text = new_text_cleaned,
                         !.current_candidate_counter = @ + 1]
         ELSE [ts EXCEPT !.current_candidate_text = new_text_cleaned,
                         !.current_candidate_counter = 1]
    ELSE IF Len(ts.current_candidate_text) > 0
         THEN [ts EXCEPT !.current_candidate_text = <<>>,
                         !.current_candidate_counter = 0]
         ELSE ts

\* the candidate after update's first half (lines 112-132)
CandidateStep(ts, new_text_cleaned) ==
    IF Len(new_text_cleaned) > 0
    THEN IF /\ Len(ts.current_candidate_text) > 0
            /\ IsSimilar(ts, new_text_cleaned, ts.current_candidate_text)
         THEN [ts EXCEPT !.current_candidate_counter = @ + 1]
         ELSE [ts EXCEPT !.current_candidate_text = new_text_cleaned,
                         !.current_candidate_counter = 1]
    ELSE IF Len(ts.current_candidate_text) > 0
         THEN [ts EXCEPT !.current_candidate_text = <<>>,
                         !.current_candidate_counter = 0]
         ELSE ts

\* whether the candidate has reached the stability count
CandidateIsStable(ts) ==
    /\ Len(ts.current_candidate_text) > 0
    /\ ts.current_candidate_counter >= ts.stability_count

\* mutant of DiffersFromLastSent: a stable candidate is always sent again
DiffersFromLastSent_Always(ts) == TRUE

\* mutant of DiffersFromLastSent: only the very first text is ever sent
DiffersFromLastSent_FirstOnly(ts) == ts.last_effectively_sent_text = None

\* whether a stable candidate differs from the last text sent
DiffersFromLastSent(ts) ==
    \/ ts.last_effectively_sent_text = None
    \/ ~IsSimilar(ts, ts.current_candidate_text, ts.last_effectively_sent_text)

\* mutant of TextLeftScene: an empty last text is announced again
TextLeftScene_NoEmptyCheck(ts) == ts.last_effectively_sent_text # None

\* whether, with no candidate left, a text sent earlier has to be withdrawn
TextLeftScene(ts) ==
    /\ ts.last_effectively_sent_text # None
    /\ ts.last_effectively_sent_text # <<>>

\* mutant of OutputDecision: a withdrawn text is not recorded as withdrawn
OutputDecision_ForgetsWithdrawal(ts) ==
    IF CandidateIsStable(ts)
    THEN IF DiffersFromLastSent(ts)
         THEN [ts |-> [ts EXCEPT !.last_effectively_sent_text =
                                     ts.current_candidate_text],
               out |-> ts.current_candidate_text]
         ELSE [ts |-> ts, out |-> None]
    ELSE IF Len(ts.current_candidate_text) = 0
    THEN IF TextLeftScene(ts)
         THEN [ts |-> ts, out |-> <<>>]
         ELSE [ts |-> ts, out |-> None]
    ELSE [ts |-> ts, out |-> None]

\* the send decision (lines 134-160): the stabilizer after it and the output
OutputDecision(ts) ==
    IF CandidateIsStable(ts)
    THEN IF DiffersFromLastSent(ts)
         THEN [ts |-> [ts EXCEPT !.last_effectively_sent_text =
                                     ts.current_candidate_text],
               out |-> ts.current_candidate_text]
         ELSE [ts |-> ts, out |-> None]
    ELSE IF Len(ts.current_candidate_text) = 0
    THEN IF TextLeftScene(ts)
         THEN [ts |-> [ts EXCEPT !.last_effectively_sent_text = <<>>],
               out |-> <<>>]
         ELSE [ts |-> ts, out |-> None]
    ELSE [ts |-> ts, out |-> None]

\* TextStabilizer.update: [ts |-> the stabilizer after the call, out |-> result]
TextStabilizer_update(ts, new_text_raw) ==
    OutputDecision(CandidateStep(ts, CleanText(new_text_raw)))

-----------------------------------------------------------------------------
(* class Characteristic (gatt_server.py).                                  *)

Characteristic_init == [value |-> <<>>, notifying |-> FALSE, signals |-> <<>>]

\* [dbus.Byte(ord(c)) for c in value]
Bytes(value) == [i \in 1..Len(value) |-> ord(value[i])]

\* Characteristic.StartNotify
StartNotify(ch) ==
    IF ch.notifying THEN ch
    ELSE [ch EXCEPT !.notifying = TRUE, !.signals = Append(@, ch.value)]

\* Characteristic.StopNotify
StopNotify(ch) ==
    IF ~ch.notifying THEN ch
    ELSE [ch EXCEPT !.notifying = FALSE]

\* mutant of set_value: PropertiesChanged is emitted with no peer notifying
set_value_AlwaysSignals(ch, value) ==
    LET stored == [ch EXCEPT !.value = Bytes(value)]
    IN [stored EXCEPT !.signals = Append(@, stored.value)]

\* Characteristic.set_value
set_value(ch, value) ==
    LET stored == [ch EXCEPT !.value = Bytes(value)]
    IN IF stored.notifying
       THEN [stored EXCEPT !.signals = Append(@, stored.value)]
       ELSE stored

\* Characteristic.send_update
send_update(ch, value) ==
    LET stored == set_value(ch, value)
    IN IF stored.notifying
       THEN [stored EXCEPT !.signals = Append(@, stored.value)]
       ELSE stored

-----------------------------------------------------------------------------
(* The state right after the constructors and the loop's initialisations.  *)

DefaultTracker == ObjectTracker_init(5, [num |-> 3, den |-> 5])

DefaultTextStabilizer == TextStabilizer_init(MIN_TEXT_SIMILARITY_RATIO, 3)

NoCycle == [op |-> "none"]

\* internet_status_updater_loop about to make its first check
UpdaterStarting == [pc |-> "check", status |-> None]

LoopLocalsInit ==
    /\ frame_count = 0
    /\ ocr_yolo_cycle_count = 0
    /\ last_sent_objects_str = None
    /\ shared_state = [internet_connected |-> FALSE]
    /\ characteristic_objects = Characteristic_init
    /\ characteristic_texts = Characteristic_init
    /\ objects_log = <<>>
    /\ texts_log = <<>>
    /\ reference = [tracker |-> DefaultTracker, last_sent |-> None, log |-> <<>>,
                    same_detections |-> TRUE]
    /\ loop_status = "running"
    /\ frames_captured = 0
    /\ internet_check_event = FALSE
    /\ updater = UpdaterStarting

LoopLocalsUnchanged ==
    UNCHANGED <<frame_count, ocr_yolo_cycle_count, last_sent_objects_str,
                shared_state, characteristic_objects, characteristic_texts,
                objects_log, texts_log, reference, loop_status,
                frames_captured, internet_check_event, updater>>

-----------------------------------------------------------------------------
(* SpecTracker: one ObjectTracker, built with any window size and ratio of *)
(* the bounds, fed any sequence of detection lists.                        *)

\* stability_threshold_ratio is a proportion: the values tried, as num / den
Ratios ==
    {[num |-> 0, den |-> 1], [num |-> 1, den |-> 10], [num |-> 1, den |-> 2],
     [num |-> 3, den |-> 5], [num |-> 1, den |-> 1]}

\* the detection lists fed to the tracker
DetectionLists == {<<>>, <<carro>>, <<pessoa>>, <<carro, pessoa>>}

InitTracker ==
    /\ \E w \in 1..MaxWindow, r \in Ratios :
          /\ tracker = ObjectTracker_init(w, r)
          /\ ctor_args = [window_size |-> w, ratio |-> r]
    /\ text_stabilizer = DefaultTextStabilizer
    /\ cycle = NoCycle
    /\ fed = <<>>
    /\ LoopLocalsInit

\* tracker.update(detections)
TrackerUpdate ==
    /\ Len(fed) < MaxUpdates
    /\ \E detections \in DetectionLists :
          /\ tracker' = ObjectTracker_update(tracker, detections)
          /\ fed' = Append(fed, detections)
          /\ cycle' = [op |-> "update", stable |-> get_stable_objects(tracker')]
    /\ UNCHANGED <<text_stabilizer, ctor_args>>
    /\ LoopLocalsUnchanged

NextTracker == TrackerUpdate

SpecTracker == InitTracker /\ [][NextTracker]_vars

-----------------------------------------------------------------------------
(* SpecText: one fresh TextStabilizer, built with the loop's similarity    *)
(* threshold and any stability count of the bounds, fed any sequence of    *)
(* raw texts.  fed records each call: its input and what it returned.      *)

InitText ==
    /\ \E s \in 1..MaxStability :
          /\ text_stabilizer = TextStabilizer_init(MIN_TEXT_SIMILARITY_RATIO, s)
          /\ ctor_args = [similarity_threshold |-> MIN_TEXT_SIMILARITY_RATIO,
                          stability_count |-> s]
    /\ tracker = DefaultTracker
    /\ cycle = NoCycle
    /\ fed = <<>>
    /\ LoopLocalsInit

\* text_stabilizer.update(new_text_raw)
TextUpdate ==
    /\ Len(fed) < MaxCalls
    /\ \E new_text_raw \in RawTexts :
          LET r == TextStabilizer_update(text_stabilizer, new_text_raw)
          IN /\ text_stabilizer' = r.ts
             /\ fed' = Append(fed, [input |-> new_text_raw, out |-> r.out])
             /\ cycle' = [op |-> "update", before |-> text_stabilizer,
                          input |-> new_text_raw, out |-> r.out]
    /\ UNCHANGED <<tracker, ctor_args>>
    /\ LoopLocalsUnchanged

NextText == TextUpdate

SpecText == InitText /\ [][NextText]_vars

-----------------------------------------------------------------------------
(* camera_capture_loop and its collaborators.                              *)

PROCESS_EVERY_N_FRAMES == 2

OCR_PROCESS_EVERY_N_FRAMES == 1

\* the factor of the generic frame_count reset (line 222)
FRAME_COUNT_RESET_FACTOR == 1000

\* process_this_yolo_frame (line 215)
ProcessThisYoloFrame(count) == count % PROCESS_EVERY_N_FRAMES = 0

\* mutant of ResetFrameCount: the reset restarts the count at 1
ResetFrameCount_ToOne(count) ==
    IF count > FRAME_COUNT_RESET_FACTOR * PROCESS_EVERY_N_FRAMES THEN 1 ELSE count

\* the generic reset of frame_count on a processed frame (lines 222-223)
ResetFrameCount(count) ==
    IF count > FRAME_COUNT_RESET_FACTOR * PROCESS_EVERY_N_FRAMES THEN 0 ELSE count

\* mutant of OcrRuns: OCR runs on every second processed cycle
OcrRuns_EverySecond(ocr_cycles) == ocr_cycles > OCR_PROCESS_EVERY_N_FRAMES

\* the OCR cadence test (line 258)
OcrRuns(ocr_cycles) == ocr_cycles >= OCR_PROCESS_EVERY_N_FRAMES

\* the literal sent when no object is stable
none_str == <<"n","o","n","e">>

\* get_objects_from_cloud_api(frame): the simulated response, whatever the frame
get_objects_from_cloud_api(frame) == <<car, person, traffic_light>>

\* the local branch (lines 234-240): the allowed classes, translated, in order
RECURSIVE LocalDetections(_)
LocalDetections(classes) ==
    IF Len(classes) = 0 THEN <<>>
    ELSE (IF classes[1] \in allowed_objects
          THEN <<translation_dict_get(classes[1], classes[1])>> ELSE <<>>)
         \o LocalDetections(Tail(classes))

\* shared_state.get(key, default)
dict_get(d, key, default) == IF key \in DOMAIN d THEN d[key] ELSE default

\* the one read of the connectivity flag of a processed cycle (line 230)
ReadConnectivityFlag(state) == dict_get(state, "internet_connected", FALSE)

\* mutant of BackendChosen: the Local model is used whatever was read
BackendChosen_AlwaysLocal(connected) == "local"

\* the branch taken on the value read (lines 230-234)
BackendChosen(connected) == IF connected THEN "remote" ELSE "local"

\* the detection list handed to tracker.update (lines 227-240)
DetectedObjects(connected, frame) ==
    IF BackendChosen(connected) = "remote"
    THEN get_objects_from_cloud_api(frame)
    ELSE LocalDetections(frame.classes)

\* current_objects_str (lines 244-246)
ObjectsString(stable_objects) ==
    LET stable_objects_list == SortedList(stable_objects)
    IN IF Len(stable_objects_list) > 0
       THEN join(<<",", " ">>, stable_objects_list) ELSE none_str

\* mutant of ObjectsChanged: the objects string is sent on every cycle
ObjectsChanged_Always(current_objects_str, last_sent) == TRUE

\* mutant of ObjectsChanged: only the first objects string is ever sent
ObjectsChanged_FirstOnly(current_objects_str, last_sent) == last_sent = None

\* the change gate of the objects channel (line 248)
ObjectsChanged(current_objects_str, last_sent) ==
    current_objects_str # last_sent

\* spell.correction(word): the words the checker corrects, and those it has
\* no candidate for (None); any other word is returned as it is
SpellCorrections == {<<(<<"d","a","i">>), (<<"d","i","a">>)>>}

SpellNoCandidate == {<<"s","e","t","e">>}

spell_correction(word) ==
    IF \E c \in SpellCorrections : c[1] = word
    THEN (CHOOSE c \in SpellCorrections : c[1] = word)[2]
    ELSE IF word \in SpellNoCandidate THEN None
    ELSE word

\* phrase_words of one line_data (lines 268-275), perform_ocr_correction = True
RECURSIVE PhraseWords(_)
PhraseWords(line_data) ==
    IF Len(line_data) = 0 THEN <<>>
    ELSE LET text_from_ocr == line_data[1]
             corrected == spell_correction(text_from_ocr)
         IN <<IF corrected # None /\ corrected # <<>>
              THEN corrected ELSE text_from_ocr>>
            \o PhraseWords(Tail(line_data))

\* extracted_texts_phrases (lines 262-279)
RECURSIVE ExtractedPhrases(_)
ExtractedPhrases(ocr_raw_paddle_results) ==
    IF Len(ocr_raw_paddle_results) = 0 THEN <<>>
    ELSE LET line_data == ocr_raw_paddle_results[1]
             meaningful_phrase_words == is_text_meaningful(PhraseWords(line_data))
         IN (IF Len(line_data) > 0 /\ Len(meaningful_phrase_words) > 0
             THEN <<join(<<" ">>, meaningful_phrase_words)>> ELSE <<>>)
            \o ExtractedPhrases(Tail(ocr_raw_paddle_results))

\* current_raw_text_from_frame (line 281)
RawTextFromFrame(ocr_raw_paddle_results) ==
    join(<<" ", "|", " ">>, ExtractedPhrases(ocr_raw_paddle_results))

\* whether final_text_to_send is sent (line 287): a Python truth test
TextIsSent(final_text_to_send) ==
    final_text_to_send # None /\ Len(final_text_to_send) > 0

\* the class lists the local model reports for the frames of the model
FrameClasses == {<<>>, <<car, person, traffic_light>>, <<person, dog, person>>}

\* the OCR results of the frames of the model: per line, the texts found
OcrResults ==
    {<<>>,
     <<(<<(<<"b","o","m">>), (<<"d","i","a">>)>>)>>,
     <<(<<(<<"b","o","m">>), (<<"d","a","i">>)>>)>>,
     <<(<<(<<"a">>)>>), <<>>>>,
     <<(<<(<<"r","u","a">>), (<<"s","e","t","e">>)>>)>>}

Frames == [classes : FrameClasses, ocr : OcrResults]

Init ==
    /\ tracker = DefaultTracker
    /\ text_stabilizer = DefaultTextStabilizer
    /\ ctor_args = [window_size |-> 5, ratio |-> [num |-> 3, den |-> 5],
                    similarity_threshold |-> MIN_TEXT_SIMILARITY_RATIO,
                    stability_count |-> 3]
    /\ cycle = NoCycle
    /\ fed = <<>>
    /\ LoopLocalsInit

\* frame_count once the loop has run over an empty scene, offline, until two
\* frames before the reset of line 222 applies
LateStart == FRAME_COUNT_RESET_FACTOR * PROCESS_EVERY_N_FRAMES - 2

\* the frames that bring frame_count back to 0: one more than the reset
\* bound of line 222, rounded up to a processed frame
ResetPeriod ==
    (FRAME_COUNT_RESET_FACTOR + 1) * PROCESS_EVERY_N_FRAMES

\* frames captured when frame_count has just been reset for the second time
AfterSecondReset == 2 * ResetPeriod

\* the frames of one run: MaxFrames of them from the start of the loop or
\* from LateStart, MaxTextFrames of them from AfterSecondReset
WithinFrameBudget ==
    \/ frames_captured < MaxFrames
    \/ LateStart <= frames_captured /\ frames_captured < LateStart + MaxFrames
    \/ /\ AfterSecondReset <= frames_captured
       /\ frames_captured < AfterSecondReset + MaxTextFrames

\* how many reads in a row have failed so far
ConsecutiveReadFailures ==
    IF cycle.op = "read_failed" THEN cycle.failures ELSE 0

\* mutant of ReadFailed: a failed read is counted as a captured frame
ReadFailed_CountsFrame ==
    /\ loop_status = "running"
    /\ WithinFrameBudget
    /\ ConsecutiveReadFailures < MaxReadFailures
    /\ cycle' = [op |-> "read_failed",
                 failures |-> ConsecutiveReadFailures + 1,
                 flag_reads |-> <<>>,
                 backends_called |-> <<>>]
    /\ frame_count' = frame_count + 1
    /\ UNCHANGED <<internet_check_event, updater>>
    /\ UNCHANGED <<tracker, text_stabilizer, fed, ctor_args,
                   ocr_yolo_cycle_count, last_sent_objects_str, shared_state,
                   characteristic_objects, characteristic_texts, objects_log,
                   texts_log, reference, loop_status, frames_captured>>

\* cap.read() fails (lines 208-212): sleep and retry
ReadFailed ==
    /\ loop_status = "running"
    /\ WithinFrameBudget
    /\ ConsecutiveReadFailures < MaxReadFailures
    /\ cycle' = [op |-> "read_failed",
                 failures |-> ConsecutiveReadFailures + 1,
                 flag_reads |-> <<>>,
                 backends_called |-> <<>>]
    /\ UNCHANGED <<tracker, text_stabilizer, fed, ctor_args>>
    /\ LoopLocalsUnchanged

\* mutant of FrameSkipped: the capture loop clears the connectivity flag
FrameSkipped_ClearsFlag ==
    /\ loop_status = "running"
    /\ WithinFrameBudget
    /\ ~ProcessThisYoloFrame(frame_count + 1)
    /\ frame_count' = frame_count + 1
    /\ frames_captured' = frames_captured + 1
    /\ cycle' = [op |-> "skipped", flag_reads |-> <<>>, backends_called |-> <<>>]
    /\ shared_state' = [shared_state EXCEPT !["internet_connected"] = FALSE]
    /\ UNCHANGED <<internet_check_event, updater>>
    /\ UNCHANGED <<tracker, text_stabilizer, fed, ctor_args,
                   ocr_yolo_cycle_count, last_sent_objects_str,
                   characteristic_objects, characteristic_texts, objects_log,
                   texts_log, reference, loop_status>>

\* a frame that is not the N-th one (lines 214-220)
FrameSkipped ==
    /\ loop_status = "running"
    /\ WithinFrameBudget
    /\ ~ProcessThisYoloFrame(frame_count + 1)
    /\ frame_count' = frame_count + 1
    /\ frames_captured' = frames_captured + 1
    /\ cycle' = [op |-> "skipped", flag_reads |-> <<>>, backends_called |-> <<>>]
    /\ UNCHANGED <<internet_check_event, updater>>
    /\ UNCHANGED <<tracker, text_stabilizer, fed, ctor_args,
                   ocr_yolo_cycle_count, last_sent_objects_str, shared_state,
                   characteristic_objects, characteristic_texts, objects_log,
                   texts_log, reference, loop_status>>

\* the reference pipeline: the same loop body with the Local backend only;
\* same_detections records that every Remote answer so far named exactly the
\* classes the frame holds
ReferenceStep(frame, connected) ==
    LET t == ObjectTracker_update(reference.tracker, LocalDetections(frame.classes))
        str == ObjectsString(get_stable_objects(t))
        sent == ObjectsChanged(str, reference.last_sent)
    IN [tracker |-> t,
        last_sent |-> IF sent THEN str ELSE reference.last_sent,
        log |-> IF sent THEN Append(reference.log, str) ELSE reference.log,
        same_detections |->
            /\ reference.same_detections
            /\ connected =>
                  ToSet(get_objects_from_cloud_api(frame)) = ToSet(frame.classes)]

\* a processed frame (lines 214-289), the frame being one of frames
FrameProcessedOf(frames) ==
    /\ loop_status = "running"
    /\ WithinFrameBudget
    /\ ProcessThisYoloFrame(frame_count + 1)
    /\ \E frame \in frames,
          connected \in {ReadConnectivityFlag(shared_state)} :
       \E tracked \in {ObjectTracker_update(tracker,
                                            DetectedObjects(connected, frame))},
          updated \in {TextStabilizer_update(text_stabilizer,
                                             RawTextFromFrame(frame.ocr))} :
       \E current_objects_str \in {ObjectsString(get_stable_objects(tracked))} :
        LET counted == frame_count + 1
            detected == DetectedObjects(connected, frame)
            objects_sent == ObjectsChanged(current_objects_str, last_sent_objects_str)
            ocr_cycles == ocr_yolo_cycle_count + 1
            ocr_runs == OcrRuns(ocr_cycles)
            stabilized_text == IF ocr_runs THEN updated.out ELSE None
            final_text_to_send == stabilized_text
            text_sent == TextIsSent(final_text_to_send)
        IN /\ frame_count' = ResetFrameCount(counted)
           /\ frames_captured' = frames_captured + 1
           /\ tracker' = tracked
           /\ characteristic_objects' =
                 IF objects_sent
                 THEN send_update(characteristic_objects, current_objects_str)
                 ELSE characteristic_objects
           /\ last_sent_objects_str' =
                 IF objects_sent THEN current_objects_str ELSE last_sent_objects_str
           /\ ocr_yolo_cycle_count' = IF ocr_runs THEN 0 ELSE ocr_cycles
           /\ text_stabilizer' = IF ocr_runs THEN updated.ts ELSE text_stabilizer
           /\ characteristic_texts' =
                 IF text_sent
                 THEN send_update(characteristic_texts, final_text_to_send)
                 ELSE characteristic_texts
           /\ objects_log' =
                 IF objects_sent THEN Append(objects_log, current_objects_str)
                 ELSE objects_log
           /\ texts_log' =
                 IF text_sent THEN Append(texts_log, final_text_to_send)
                 ELSE texts_log
           /\ reference' = ReferenceStep(frame, connected)
           /\ cycle' = [op |-> "processed",
                        frame |-> frame,
                        flag_reads |-> <<connected>>,
                        backends_called |-> <<BackendChosen(connected)>>,
                        backend |-> BackendChosen(connected),
                        detected |-> detected,
                        current_objects_str |-> current_objects_str,
                        forwarded_before |->
                            IF Len(objects_log) = 0 THEN None
                            ELSE Last(objects_log),
                        objects_sent |->
                            IF objects_sent THEN current_objects_str ELSE None,
                        ocr_ran |-> ocr_runs,
                        stabilized_text |-> stabilized_text,
                        text_sent |->
                            IF text_sent THEN final_text_to_send ELSE None]
    /\ UNCHANGED <<shared_state, fed, ctor_args, loop_status,
                   internet_check_event, updater>>

\* a processed frame whose Local inference raises (line 234): nothing in
\* camera_capture_loop catches the exception, so it ends the loop's thread
BackendFailed ==
    /\ loop_status = "running"
    /\ WithinFrameBudget
    /\ ProcessThisYoloFrame(frame_count + 1)
    /\ LET connected == ReadConnectivityFlag(shared_state)
       IN /\ BackendChosen(connected) = "local"
          /\ cycle' = [op |-> "backend_failed",
                       flag_reads |-> <<connected>>,
                       backends_called |-> <<BackendChosen(connected)>>,
                       backend |-> BackendChosen(connected)]
    /\ frame_count' = ResetFrameCount(frame_count + 1)
    /\ frames_captured' = frames_captured + 1
    /\ loop_status' = "terminated"
    /\ UNCHANGED <<internet_check_event, updater>>
    /\ UNCHANGED <<tracker, text_stabilizer, fed, ctor_args,
                   ocr_yolo_cycle_count, last_sent_objects_str, shared_state,
                   characteristic_objects, characteristic_texts, objects_log,
                   texts_log, reference>>

\* a processed frame of Spec: any frame of Frames
FrameProcessed == FrameProcessedOf(Frames)

\* gatt_server.is_internet_available(): True or False
is_internet_available == BOOLEAN

\* internet_status_updater_loop: one check and, on a change, the write of
\* the flag (lines 36-39)
InternetStatusUpdate ==
    /\ WithinFrameBudget
    /\ \E status \in is_internet_available :
          shared_state' =
              IF status # dict_get(shared_state, "internet_connected", None)
              THEN [shared_state EXCEPT !["internet_connected"] = status]
              ELSE shared_state
    /\ UNCHANGED <<tracker, text_stabilizer, frame_count, ocr_yolo_cycle_count,
                   last_sent_objects_str, characteristic_objects,
                   characteristic_texts, cycle, objects_log, texts_log, fed,
                   ctor_args, reference, loop_status, frames_captured,
                   internet_check_event, updater>>

\* the runs in which no inference raises
Next == ReadFailed \/ FrameSkipped \/ FrameProcessed \/ InternetStatusUpdate

Spec == Init /\ [][Next]_vars

-----------------------------------------------------------------------------
(* SpecLoop: the control flow of camera_capture_loop over a few frames,    *)
(* with inferences that raise, started either at the top of the loop or    *)
(* after a long run over an empty scene, so that the reset of frame_count  *)
(* is reached.                                                             *)

\* the frames of SpecLoop
LoopFrames ==
    {[classes |-> <<>>, ocr |-> <<>>],
     [classes |-> <<car, person, traffic_light>>,
      ocr |-> <<(<<(<<"b","o","m">>), (<<"d","i","a">>)>>)>>],
     [classes |-> <<person, dog, person>>, ocr |-> <<>>]}

\* the tracker after n processed cycles that detected nothing
RECURSIVE TrackerAfterEmptyCycles(_, _)
TrackerAfterEmptyCycles(t, n) ==
    IF n = 0 THEN t
    ELSE TrackerAfterEmptyCycles(ObjectTracker_update(t, <<>>), n - 1)

\* the tracker after the LateStart \div N processed cycles of an empty scene:
\* the deque holds the last window_size of them, so replaying that many
\* gives the same tracker
LateTracker ==
    TrackerAfterEmptyCycles(DefaultTracker,
        Min(LateStart \div PROCESS_EVERY_N_FRAMES, DefaultTracker.window_size))

\* the state of the loop after LateStart frames of an empty scene, offline:
\* every processed cycle detected nothing and read no text, "none" was sent
\* once
InitLate ==
    /\ tracker = LateTracker
    /\ text_stabilizer = DefaultTextStabilizer
    /\ frame_count = LateStart
    /\ frames_captured = LateStart
    /\ ocr_yolo_cycle_count = 0
    /\ last_sent_objects_str = none_str
    /\ shared_state = [internet_connected |-> FALSE]
    /\ characteristic_objects = send_update(Characteristic_init, none_str)
    /\ characteristic_texts = Characteristic_init
    /\ objects_log = <<none_str>>
    /\ texts_log = <<>>
    /\ reference = [tracker |-> LateTracker,
                    last_sent |-> none_str, log |-> <<none_str>>,
                    same_detections |-> TRUE]
    /\ loop_status = "running"
    /\ internet_check_event = FALSE
    /\ updater = UpdaterStarting
    /\ ctor_args = [window_size |-> 5, ratio |-> [num |-> 3, den |-> 5],
                    similarity_threshold |-> MIN_TEXT_SIMILARITY_RATIO,
                    stability_count |-> 3]
    /\ cycle = NoCycle
    /\ fed = <<>>

InitLoop == Init \/ InitLate

\* a processed frame of SpecLoop: any frame of LoopFrames
LoopFrameProcessed == FrameProcessedOf(LoopFrames)

NextLoop ==
    \/ ReadFailed
    \/ FrameSkipped
    \/ LoopFrameProcessed
    \/ BackendFailed
    \/ InternetStatusUpdate

SpecLoop == InitLoop /\ [][NextLoop]_vars

-----------------------------------------------------------------------------
(* SpecTextChannel: the capture loop over a scene with no objects in which *)
(* a text comes and goes, for long enough that a text can become stable,   *)
(* leave, and become stable again.  The run starts right after the second  *)
(* reset of frame_count, the scene having been empty until then.           *)

\* the frames of SpecTextChannel
TextChannelFrames ==
    {[classes |-> <<>>, ocr |-> <<>>],
     [classes |-> <<>>,
      ocr |-> <<(<<(<<"b","o","m">>), (<<"d","i","a">>)>>)>>],
     [classes |-> <<>>,
      ocr |-> <<(<<(<<"r","u","a">>), (<<"s","e","t","e">>)>>)>>]}

\* the state of the loop after AfterSecondReset frames of an empty scene,
\* offline: as InitLate, the frame on which line 223 resets frame_count
\* having just been processed
InitTextChannel ==
    /\ tracker = LateTracker
    /\ text_stabilizer = DefaultTextStabilizer
    /\ frame_count = 0
    /\ frames_captured = AfterSecondReset
    /\ ocr_yolo_cycle_count = 0
    /\ last_sent_objects_str = none_str
    /\ shared_state = [internet_connected |-> FALSE]
    /\ characteristic_objects = send_update(Characteristic_init, none_str)
    /\ characteristic_texts = Characteristic_init
    /\ objects_log = <<none_str>>
    /\ texts_log = <<>>
    /\ reference = [tracker |-> LateTracker,
                    last_sent |-> none_str, log |-> <<none_str>>,
                    same_detections |-> TRUE]
    /\ loop_status = "running"
    /\ internet_check_event = FALSE
    /\ updater = UpdaterStarting
    /\ ctor_args = [window_size |-> 5, ratio |-> [num |-> 3, den |-> 5],
                    similarity_threshold |-> MIN_TEXT_SIMILARITY_RATIO,
                    stability_count |-> 3]
    /\ cycle = NoCycle
    /\ fed = <<>>

\* a processed frame of SpecTextChannel: any frame of TextChannelFrames
TextChannelFrameProcessed == FrameProcessedOf(TextChannelFrames)

NextTextChannel == FrameSkipped \/ TextChannelFrameProcessed

SpecTextChannel == InitTextChannel /\ [][NextTextChannel]_vars

-----------------------------------------------------------------------------
(* SpecGatt: one Characteristic, the one of the objects channel, with a    *)
(* peer that starts and stops notifications over D-Bus while the pipeline  *)
(* calls send_update.  fed records the values handed to send_update.       *)

MaxSends == 3        \* send_update calls in one run of SpecGatt
MaxSignals == 6      \* PropertiesChanged signals in one run of SpecGatt

\* the values handed to send_update
PublishedValues ==
    {none_str, carro \o <<",", " ">> \o pessoa, bom_dia}

GattUnchanged ==
    UNCHANGED <<tracker, text_stabilizer, frame_count, ocr_yolo_cycle_count,
                last_sent_objects_str, shared_state, characteristic_texts,
                objects_log, texts_log, ctor_args, reference, loop_status,
                frames_captured, internet_check_event, updater>>

InitGatt ==
    /\ tracker = DefaultTracker
    /\ text_stabilizer = DefaultTextStabilizer
    /\ ctor_args = [value |-> <<>>, notifying |-> FALSE]
    /\ cycle = NoCycle
    /\ fed = <<>>
    /\ LoopLocalsInit

\* the peer subscribes: StartNotify over D-Bus
GattStartNotify ==
    /\ Len(characteristic_objects.signals) < MaxSignals
    /\ characteristic_objects' = StartNotify(characteristic_objects)
    /\ cycle' = [op |-> "StartNotify", before |-> characteristic_objects]
    /\ UNCHANGED fed
    /\ GattUnchanged

\* the peer unsubscribes: StopNotify over D-Bus
GattStopNotify ==
    /\ characteristic_objects' = StopNotify(characteristic_objects)
    /\ cycle' = [op |-> "StopNotify", before |-> characteristic_objects]
    /\ UNCHANGED fed
    /\ GattUnchanged

\* the pipeline publishes: characteristic.send_update(value)
GattSendUpdate ==
    /\ Len(fed) < MaxSends
    /\ \E value \in PublishedValues :
          /\ characteristic_objects' = send_update(characteristic_objects, value)
          /\ cycle' = [op |-> "send_update", value |-> value,
                       before |-> characteristic_objects]
          /\ fed' = Append(fed, value)
    /\ GattUnchanged

NextGatt == GattStartNotify \/ GattStopNotify \/ GattSendUpdate

SpecGatt == InitGatt /\ [][NextGatt]_vars

-----------------------------------------------------------------------------
(* SpecNet: the thread of internet_status_updater_loop, step by step,      *)
(* interleaved with the Wi-Fi tasks that call connection_event.set().      *)
(* fed is the order in which the steps of the thread and the set() calls   *)
(* took effect.                                                            *)

\* the exception classes subprocess.run raises in the model, each with its
\* base classes up to Exception
ExceptionBases ==
    [CalledProcessError |-> {"CalledProcessError", "SubprocessError",
                             "Exception"},
     FileNotFoundError |-> {"FileNotFoundError", "OSError", "Exception"},
     PermissionError |-> {"PermissionError", "OSError", "Exception"},
     UnicodeDecodeError |-> {"UnicodeDecodeError", "UnicodeError",
                             "ValueError", "Exception"}]

\* subprocess.run returned: nothing was raised
NotRaised == "NotRaised"

\* isinstance(exc, classes) for an exception named by its class
IsInstance(exc, classes) == ExceptionBases[exc] \cap classes # {}

\* the output of `nmcli -t -f ACTIVE,SSID dev wifi` in the model
NmcliOutputs ==
    {<<>>,
     <<"n","o",":","c","a","s","a","\n">>,
     <<"y","e","s",":","c","a","s","a","\n">>,
     <<"n","o",":","c","a","s","a","\n","y","e","s",":","r","u","a","\n">>,
     <<"y","e","s",":","\n","n","o",":","r","u","a","\n">>,
     <<"n","o",":","y","e","s","\n">>,
     <<"\n","n","o",":","r","u","a","\n","\n">>}

\* what subprocess.run(cmd, capture_output=True, text=True, check=True)
\* does: it returns the output of a command that exited with 0, or raises
NmcliRuns ==
    {[raises |-> NotRaised, stdout |-> out] : out \in NmcliOutputs}
    \cup {[raises |-> exc, stdout |-> <<>>] : exc \in DOMAIN ExceptionBases}

\* lines 545-550: some line of the stripped output starts with "yes:"
ActiveLineFound(stdout) ==
    LET lines == split_sep(strip(stdout), "\n")
    IN \E i \in 1..Len(lines) : startswith(lines[i], <<"y","e","s",":">>)

\* mutant of ExceptionCaught: the second except clause is missing
ExceptionCaught_NamedOnly(exc) ==
    IsInstance(exc, {"CalledProcessError", "FileNotFoundError"})

\* the except clauses of lines 552 and 555
ExceptionCaught(exc) ==
    \/ IsInstance(exc, {"CalledProcessError", "FileNotFoundError"})
    \/ IsInstance(exc, {"Exception"})

\* is_internet_available() over one run of nmcli: the value returned, or the
\* exception that reaches the caller
InternetAvailable(run) ==
    IF run.raises = NotRaised
    THEN [raised |-> NotRaised, value |-> ActiveLineFound(run.stdout)]
    ELSE IF ExceptionCaught(run.raises)
    THEN [raised |-> NotRaised, value |-> FALSE]
    ELSE [raised |-> run.raises, value |-> None]

\* Event.set()
Event_set(flag) == TRUE

\* Event.clear()
Event_clear(flag) == FALSE

\* Event.wait(timeout) returns: at once when the flag is set, otherwise
\* when the timeout expires
Event_wait_returns(flag, timed_out) == flag \/ timed_out

NetUnchanged ==
    UNCHANGED <<tracker, text_stabilizer, frame_count, ocr_yolo_cycle_count,
                last_sent_objects_str, characteristic_objects,
                characteristic_texts, objects_log, texts_log, ctor_args,
                reference, loop_status, frames_captured>>

InitNet ==
    /\ tracker = DefaultTracker
    /\ text_stabilizer = DefaultTextStabilizer
    /\ ctor_args = [timeout |-> 15]
    /\ cycle = NoCycle
    /\ fed = <<>>
    /\ LoopLocalsInit

\* line 36: the call of is_internet_available() starts
UpdaterCheckStart ==
    /\ Len(fed) < MaxNetEvents
    /\ updater.pc = "check"
    /\ updater' = [updater EXCEPT !.pc = "checking"]
    /\ fed' = Append(fed, "check")
    /\ cycle' = [op |-> "check_start"]
    /\ UNCHANGED <<shared_state, internet_check_event>>
    /\ NetUnchanged

\* mutant of UpdaterCheckEnd: the event is cleared after the check instead
\* of before it
UpdaterCheckEnd_ClearsEvent ==
    /\ Len(fed) < MaxNetEvents
    /\ updater.pc = "checking"
    /\ \E run \in NmcliRuns : \E result \in {InternetAvailable(run)} :
          /\ updater' = [pc |-> "wait", status |-> result.value]
          /\ shared_state' =
                IF result.value
                       # dict_get(shared_state, "internet_connected", None)
                THEN [shared_state EXCEPT
                          !["internet_connected"] = result.value]
                ELSE shared_state
          /\ cycle' = [op |-> "check", run |-> run, result |-> result]
    /\ fed' = Append(fed, "checked")
    /\ internet_check_event' = Event_clear(internet_check_event)
    /\ NetUnchanged

\* lines 36-39: is_internet_available() returns and the flag of
\* shared_state is written when the status differs from it; an exception
\* that reaches the loop ends the thread
UpdaterCheckEnd ==
    /\ Len(fed) < MaxNetEvents
    /\ updater.pc = "checking"
    /\ \E run \in NmcliRuns : \E result \in {InternetAvailable(run)} :
          /\ IF result.raised # NotRaised
             THEN /\ updater' = [updater EXCEPT !.pc = "dead"]
                  /\ UNCHANGED shared_state
             ELSE /\ updater' = [pc |-> "wait", status |-> result.value]
                  /\ shared_state' =
                        IF result.value
                               # dict_get(shared_state, "internet_connected",
                                          None)
                        THEN [shared_state EXCEPT
                                  !["internet_connected"] = result.value]
                        ELSE shared_state
          /\ cycle' = [op |-> "check", run |-> run, result |-> result]
    /\ fed' = Append(fed, "checked")
    /\ UNCHANGED internet_check_event
    /\ NetUnchanged

\* line 46: event.wait(timeout=15) returns
UpdaterWaitReturns ==
    /\ Len(fed) < MaxNetEvents
    /\ updater.pc = "wait"
    /\ \E timed_out \in BOOLEAN :
          Event_wait_returns(internet_check_event, timed_out)
    /\ updater' = [updater EXCEPT !.pc = "clear"]
    /\ fed' = Append(fed, "woke")
    /\ cycle' = [op |-> "wait", returned |-> internet_check_event]
    /\ UNCHANGED <<shared_state, internet_check_event>>
    /\ NetUnchanged

\* line 48: event.clear(), then the next iteration
UpdaterClear ==
    /\ Len(fed) < MaxNetEvents
    /\ updater.pc = "clear"
    /\ internet_check_event' = Event_clear(internet_check_event)
    /\ updater' = [updater EXCEPT !.pc = "check"]
    /\ fed' = Append(fed, "clear")
    /\ cycle' = [op |-> "clear"]
    /\ UNCHANGED shared_state
    /\ NetUnchanged

\* the finally clause of a Wi-Fi task: connection_event.set(), whether the
\* commands of the task succeeded or raised
WifiTaskSets(task) ==
    /\ Len(fed) < MaxNetEvents
    /\ internet_check_event' = Event_set(internet_check_event)
    /\ fed' = Append(fed, "set")
    /\ \E succeeded \in BOOLEAN :
          cycle' = [op |-> task, succeeded |-> succeeded]
    /\ UNCHANGED <<shared_state, updater>>
    /\ NetUnchanged

\* WifiCommandCharacteristic._connect_wifi_task ends
ConnectWifiTask == WifiTaskSets("_connect_wifi_task")

\* WifiCommandCharacteristic._disconnect_wifi_task ends
DisconnectWifiTask == WifiTaskSets("_disconnect_wifi_task")

NextNet ==
    \/ UpdaterCheckStart
    \/ UpdaterCheckEnd
    \/ UpdaterWaitReturns
    \/ UpdaterClear
    \/ ConnectWifiTask
    \/ DisconnectWifiTask

SpecNet == InitNet /\ [][NextNet]_vars

-----------------------------------------------------------------------------
(* Claims about TextStabilizer.update, checked under SpecText.             *)

\* the result of a call is a non-empty text
IsText(out) == out # None /\ out # <<>>

\* the ratio update computes between a raw input and a tracked text
InputRatio(input, text) == fuzz_ratio(lower(CleanText(input)), lower(text))

\* C4: whenever update returns a non-empty string, that string is the
\* current candidate, and each of the last S inputs (S = stability_count),
\* this call's included, is non-empty after normalisation and similar to it
\* at or above the threshold: no text seen fewer than S consecutive matching
\* times is emitted.
C4_EmittedTextHasSConsecutiveSupport ==
    \A n \in 1..Len(fed) :
        IsText(fed[n].out) =>
            /\ n >= ctor_args.stability_count
            /\ \A i \in (n - ctor_args.stability_count + 1)..n :
                  /\ CleanText(fed[i].input) # <<>>
                  /\ InputRatio(fed[i].input, fed[n].out)
                        >= ctor_args.similarity_threshold
            /\ n = Len(fed) => fed[n].out = text_stabilizer.current_candidate_text

\* C4 witness: with S = 3 a text is emitted right after a dissimilar text
\* and an empty input had restarted the count.
C4_Witness ==
    /\ ctor_args.stability_count = 3
    /\ Len(fed) = 5
    /\ fed[1].input = rua_sete
    /\ fed[2].input = <<>>
    /\ fed[5].out = bom_dia
    /\ \A n \in 1..4 : fed[n].out = None

\* every call so far was fed the same raw text
SameInputThroughout == \A n \in 1..Len(fed) : fed[n].input = fed[1].input

\* C5 as stated: fed the same non-empty string on every call, a fresh
\* stabilizer returns that string on exactly the S-th call and None on every
\* other call.
C5_Original_SameStringReturnedAtSthCall ==
    (Len(fed) >= 1 /\ SameInputThroughout /\ fed[1].input # <<>>) =>
        \A n \in 1..Len(fed) :
            fed[n].out = IF n = ctor_args.stability_count
                         THEN fed[1].input ELSE None

\* C5 amended: fed the same string on every call, a fresh stabilizer returns
\* the whitespace-normalised form of that string on exactly the S-th call and
\* None on every other call, provided the string holds a character that is
\* not whitespace; a whitespace-only string is never returned.
C5_NormalisedStringReturnedAtSthCall ==
    (Len(fed) >= 1 /\ SameInputThroughout) =>
        \A n \in 1..Len(fed) :
            fed[n].out = IF /\ n = ctor_args.stability_count
                            /\ split(fed[1].input) # <<>>
                         THEN join(<<" ">>, split(fed[1].input)) ELSE None

\* C5 witness: a text with surplus whitespace was fed S + 2 times and came
\* back normalised at the S-th call.
C5_Witness ==
    /\ SameInputThroughout
    /\ Len(fed) = ctor_args.stability_count + 2
    /\ fed[1].input # bom_dia
    /\ fed[ctor_args.stability_count].out = bom_dia

\* a non-empty text was emitted before call n and no empty string since
TextPending(n) ==
    \E m \in 1..(n - 1) :
        /\ IsText(fed[m].out)
        /\ \A k \in (m + 1)..(n - 1) : fed[k].out # <<>>

\* C6: update returns the empty string exactly on the calls whose input is
\* empty or whitespace-only and before which a non-empty text was emitted
\* with no empty string emitted since: once on the first empty input after
\* an emission, not on the further empty inputs, never without an emission.
C6_EmptyEmittedExactlyOncePerText ==
    \A n \in 1..Len(fed) :
        fed[n].out = <<>> <=> (CleanText(fed[n].input) = <<>> /\ TextPending(n))

\* C6 witness: a text was emitted, the next (empty) input returned the empty
\* string and the following whitespace-only input returned nothing.
C6_Witness ==
    /\ Len(fed) >= 3
    /\ IsText(fed[Len(fed) - 2].out)
    /\ fed[Len(fed) - 1].input = <<>>
    /\ fed[Len(fed) - 1].out = <<>>
    /\ fed[Len(fed)].input = <<" ">>
    /\ fed[Len(fed)].out = None

-----------------------------------------------------------------------------
(* Claims about ObjectTracker, checked under SpecTracker.                  *)

\* the labels the claims range over: those fed and one never fed
TrackerLabels == {carro, pessoa, semaforo}

\* the last min(n, W) inputs, as sets
RetainedInputs ==
    LET n == Min(Len(fed), ctor_args.window_size)
    IN [i \in 1..n |-> ToSet(fed[Len(fed) - n + i])]

\* in how many of the retained inputs a label occurs
Occurrences(label) ==
    Cardinality({i \in 1..Len(RetainedInputs) : label \in RetainedInputs[i]})

\* C7: once at least W sets were fed, a label contained in every one of the
\* last W sets is stable and a label contained in none of them is not.
C7_AlwaysPresentStable_AbsentNotStable ==
    Len(fed) >= ctor_args.window_size =>
        \A label \in TrackerLabels :
            /\ Occurrences(label) = ctor_args.window_size
                  => label \in tracker.currently_stable_objects
            /\ Occurrences(label) = 0
                  => label \notin tracker.currently_stable_objects

\* C7 witness: with W = 5, after six updates, one label is in all of the
\* last five sets and stable, another was only in the evicted set and is not.
C7_Witness ==
    /\ ctor_args.window_size = 5
    /\ Len(fed) = 6
    /\ fed[1] = <<pessoa>>
    /\ Occurrences(pessoa) = 0
    /\ Occurrences(carro) = 5
    /\ tracker.currently_stable_objects = {carro}

\* floor(W * ratio), clamped to at least 1
FloorThreshold ==
    Max(1, (ctor_args.window_size * ctor_args.ratio.num) \div ctor_args.ratio.den)

\* ceil(W * ratio), clamped to at least 1
CeilThreshold ==
    Max(1, -((-(ctor_args.window_size * ctor_args.ratio.num))
                \div ctor_args.ratio.den))

Scenario ==
    <<(<<carro>>), <<>>, <<carro, pessoa>>, (<<carro>>), (<<pessoa>>)>>

\* C8: after every update a label is stable iff the number of retained
\* inputs (the last min(n, W)) containing it is at least
\* max(1, floor(W * ratio)); with W = 5 and ratio 0.6 the inputs
\* [{carro}, {}, {carro, pessoa}, {carro}, {pessoa}] give {carro}.
C8_StableIffCountAtLeastFloorThreshold ==
    Len(fed) >= 1 =>
        /\ \A label \in TrackerLabels :
              label \in tracker.currently_stable_objects
                  <=> Occurrences(label) >= FloorThreshold
        /\ (/\ ctor_args.window_size = 5
            /\ ctor_args.ratio = [num |-> 3, den |-> 5]
            /\ fed = Scenario)
              => tracker.currently_stable_objects = {carro}

\* C8 witness: the scenario of the claim has been fed.
C8_Witness ==
    /\ ctor_args.window_size = 5
    /\ ctor_args.ratio = [num |-> 3, den |-> 5]
    /\ fed = Scenario
    /\ Occurrences(carro) = 3
    /\ Occurrences(pessoa) = 2
    /\ tracker.currently_stable_objects = {carro}

\* C9 as stated: the stable set is exactly the labels whose occurrence count
\* across the history is at least T = ceil(W * ratio), clamped to at least 1.
C9_Original_CeilThreshold ==
    Len(fed) >= 1 =>
        tracker.currently_stable_objects =
            {label \in TrackerLabels :
                CountIn(tracker.history, label) >= CeilThreshold}

\* C9 amended: the threshold the tracker uses is T = floor(W * ratio),
\* clamped to at least 1, and the stable set is exactly the labels whose
\* occurrence count across the history is at least that T.
C9_FloorThreshold ==
    /\ tracker.stability_count_threshold = FloorThreshold
    /\ Len(fed) >= 1 =>
          tracker.currently_stable_objects =
              {label \in TrackerLabels :
                  CountIn(tracker.history, label)
                      >= tracker.stability_count_threshold}

\* C9 witness: W = 5 and ratio 0.5, where floor gives 2 and ceil 3: a label
\* in exactly two sets of a full history is stable.
C9_Witness ==
    /\ ctor_args.window_size = 5
    /\ ctor_args.ratio = [num |-> 1, den |-> 2]
    /\ Len(tracker.history) = 5
    /\ CountIn(tracker.history, carro) = 2
    /\ carro \in tracker.currently_stable_objects
    /\ FloorThreshold = 2
    /\ CeilThreshold = 3

-----------------------------------------------------------------------------
(* Claims about camera_capture_loop, checked under Spec.                   *)

\* C1 as stated: every value TextStabilizer.update returns on a cycle (any
\* result other than None, the empty string included) is handed to the text
\* characteristic's send_update in that same cycle.
C1_EveryStabilizerOutputIsSent ==
    (cycle.op = "processed" /\ cycle.ocr_ran /\ cycle.stabilized_text # None)
        => cycle.text_sent = cycle.stabilized_text

\* C2 as stated: with the same underlying detections (every Remote answer
\* names the classes of its frame) the values sent on the objects channel
\* are those of the run that uses the Local backend on every cycle, whatever
\* the connectivity flag did.
C2_BackendSwitchAddsNoPublish ==
    reference.same_detections => objects_log = reference.log

\* C3: the objects channel never gets two consecutive identical strings; a
\* cycle forwards its objects string exactly when it differs from the last
\* string forwarded, and always when nothing has been forwarded yet.
C3_ObjectsGateForwardsExactlyChanges ==
    /\ \A i \in 1..(Len(objects_log) - 1) : objects_log[i] # objects_log[i + 1]
    /\ cycle.op = "processed" =>
          /\ cycle.objects_sent # None
                <=> cycle.current_objects_str # cycle.forwarded_before
          /\ cycle.objects_sent # None
                => /\ cycle.objects_sent = cycle.current_objects_str
                   /\ Len(objects_log) >= 1
                   /\ Last(objects_log) = cycle.current_objects_str
          /\ cycle.forwarded_before = None => cycle.objects_sent # None

\* C3 witness: two different strings were forwarded and the latest cycle
\* computed the last one again, which the gate held back.
C3_Witness ==
    /\ cycle.op = "processed"
    /\ Len(objects_log) = 2
    /\ objects_log[1] = none_str
    /\ cycle.current_objects_str = objects_log[2]
    /\ cycle.objects_sent = None

\* the translated allowed-object labels
LabelVocabulary == {translation_dict_get(c, c) : c \in allowed_objects}

\* C10 as stated: every label handed to ObjectTracker.update is one of the
\* translated allowed-object labels whichever backend produced it, and for
\* the same detected classes the Remote branch hands over the labels the
\* Local branch does.
C10_OneVocabularyForBothBackends ==
    cycle.op = "processed" =>
        /\ ToSet(cycle.detected) \subseteq LabelVocabulary
        /\ (/\ cycle.backend = "remote"
            /\ ToSet(get_objects_from_cloud_api(cycle.frame))
                  = ToSet(cycle.frame.classes))
              => ToSet(cycle.detected)
                    = ToSet(LocalDetections(cycle.frame.classes))

-----------------------------------------------------------------------------
(* Claims about the control flow of camera_capture_loop, checked under     *)
(* SpecLoop.                                                               *)

\* C11: when the backend invocation of a processed cycle fails, the capture
\* loop does not terminate and that cycle feeds an empty detection set to
\* ObjectTracker.update.
C11_BackendFailureIsZeroDetections ==
    cycle.op = "backend_failed" =>
        /\ loop_status = "running"
        /\ Len(tracker.history) > 0
        /\ Last(tracker.history) = {}

\* the publishes and the state a failed read must leave alone
ReadFailureLeavesAlone ==
    <<frame_count, tracker, text_stabilizer, ocr_yolo_cycle_count,
      last_sent_objects_str, objects_log, texts_log, characteristic_objects,
      characteristic_texts>>

\* C12: a failed read does not end the loop, publishes nothing and leaves
\* frame_count, the tracker history, the stabilizer state, the OCR cycle
\* counter and last_sent_objects_str unchanged; after it the next successful
\* read is handled (skipped or processed) as frame_count tells.
C12_FailedReadChangesNothing ==
    /\ [][cycle'.op = "read_failed" /\ cycle' # cycle =>
             /\ loop_status' = "running"
             /\ UNCHANGED ReadFailureLeavesAlone]_vars
    /\ [](cycle.op = "read_failed" /\ WithinFrameBudget =>
             IF ProcessThisYoloFrame(frame_count + 1)
             THEN ENABLED LoopFrameProcessed
             ELSE ENABLED FrameSkipped)

\* two reads failed in a row in the middle of a run that has published
\* "none" and is counting a text candidate
C12_Witness ==
    /\ cycle.op = "read_failed"
    /\ cycle.failures = 2
    /\ frame_count = 4
    /\ objects_log = <<none_str>>
    /\ text_stabilizer.current_candidate_counter = 2

\* C13: once the reads of the camera have failed a bounded number of times in
\* a row the loop has stopped retrying.
C13_RetryBudgetEndsTheLoop ==
    ConsecutiveReadFailures >= MaxReadFailures => loop_status # "running"

\* what a frame that is not processed must leave alone
SkippedFrameLeavesAlone ==
    <<tracker, text_stabilizer, ocr_yolo_cycle_count, last_sent_objects_str,
      objects_log, texts_log, characteristic_objects, characteristic_texts>>

\* C14: a backend is called, the tracker is updated and values are published
\* on the captured frames whose number is a multiple of N and on no other
\* frame, before and after frame_count is reset to 0.
C14_ProcessingOnEveryNthFrame ==
    /\ [](cycle.op \in {"processed", "backend_failed"} =>
             frames_captured % PROCESS_EVERY_N_FRAMES = 0)
    /\ [](cycle.op = "skipped" =>
             frames_captured % PROCESS_EVERY_N_FRAMES # 0)
    /\ [][frames_captured' # frames_captured =>
             IF frames_captured' % PROCESS_EVERY_N_FRAMES = 0
             THEN /\ Len(cycle'.backends_called) = 1
                  /\ cycle'.op = "processed" =>
                         tracker' = ObjectTracker_update(tracker, cycle'.detected)
             ELSE /\ cycle'.op = "skipped"
                  /\ cycle'.backends_called = <<>>
                  /\ UNCHANGED SkippedFrameLeavesAlone]_vars

\* the second processed cycle after the reset of frame_count
C14_Witness ==
    /\ cycle.op = "processed"
    /\ frame_count = PROCESS_EVERY_N_FRAMES
    /\ frames_captured = LateStart + 6
    /\ Len(objects_log) > 1

\* the processed cycles so far, the one of the latest captured frame included
ProcessedCycles == frames_captured \div PROCESS_EVERY_N_FRAMES

StateWithoutFlag == [unrelated |-> TRUE]

\* C16: a processed cycle reads the connectivity flag once and calls one
\* backend, Remote if the value read is true and Local otherwise, also when
\* the flag is absent; a skipped frame or a failed read reads no flag and
\* calls no backend; the value that counts is the one the flag has when the
\* cycle runs.
C16_OneFlagReadOneBackendPerCycle ==
    /\ [](cycle.op \in {"skipped", "read_failed"} =>
             cycle.flag_reads = <<>> /\ cycle.backends_called = <<>>)
    /\ [](BackendChosen(ReadConnectivityFlag(StateWithoutFlag)) = "local")
    /\ [][cycle'.op \in {"processed", "backend_failed"}
             /\ frames_captured' # frames_captured =>
             /\ cycle'.flag_reads = <<shared_state.internet_connected>>
             /\ cycle'.backends_called =
                    <<IF shared_state.internet_connected
                      THEN "remote" ELSE "local">>
             /\ cycle'.op = "processed" =>
                    cycle'.detected =
                        IF shared_state.internet_connected
                        THEN get_objects_from_cloud_api(cycle'.frame)
                        ELSE LocalDetections(cycle'.frame.classes)]_vars

\* the flag became true between two processed cycles over the same scene:
\* the earlier one ran the Local model, the later one the Remote backend
C16_Witness ==
    /\ cycle.op = "processed"
    /\ cycle.backends_called = <<"remote">>
    /\ Len(tracker.history) >= 2
    /\ tracker.history[Len(tracker.history) - 1] = {carro, pessoa, semaforo}
    /\ Last(tracker.history) = {car, person, traffic_light}

\* everything the capture loop owns
CaptureLoopState ==
    <<tracker, text_stabilizer, frame_count, ocr_yolo_cycle_count,
      last_sent_objects_str, characteristic_objects, characteristic_texts,
      cycle, objects_log, texts_log, loop_status, frames_captured>>

\* C20: the connectivity flag is written by internet_status_updater_loop
\* alone: a step that changes it is no step of the capture loop, no step of
\* the capture loop changes it, and however the writes fall between the
\* cycles each processed cycle calls the one backend that the value it read
\* selects, that value being the flag as last written.
C20_FlagHasOneWriter ==
    /\ [][shared_state' # shared_state => UNCHANGED CaptureLoopState]_vars
    /\ [][CaptureLoopState' # CaptureLoopState =>
             shared_state' = shared_state]_vars
    /\ [](cycle.op \in {"processed", "backend_failed"} =>
             /\ Len(cycle.flag_reads) = 1
             /\ cycle.backends_called =
                    <<IF cycle.flag_reads[1] THEN "remote" ELSE "local">>)
    /\ [][cycle'.op \in {"processed", "backend_failed"}
             /\ frames_captured' # frames_captured =>
             cycle'.flag_reads = <<shared_state.internet_connected>>]_vars

\* the flag was written true, false and true again around the cycles: an
\* earlier cycle ran the Remote backend, the latest one read false and ran
\* the Local model, and the flag is true again
C20_Witness ==
    /\ cycle.op = "processed"
    /\ cycle.flag_reads = <<FALSE>>
    /\ cycle.backends_called = <<"local">>
    /\ shared_state.internet_connected
    /\ \E i \in 1..Len(tracker.history) :
          tracker.history[i] = {car, person, traffic_light}

-----------------------------------------------------------------------------
(* Claims about the objects channel, checked under Spec.                   *)

\* the ways of listing the set S once each in increasing order (one way)
IncreasingListings(S) ==
    {L \in [1..Cardinality(S) -> S] :
        \A i, j \in 1..Cardinality(S) : i < j => StrLess(L[i], L[j])}

\* C17: the objects string of a processed cycle is "none" exactly when the
\* stable set is empty and otherwise the stable labels, each once, in
\* increasing lexicographic order, joined by ", "; a value sent on the
\* objects channel is that string.
C17_ObjectsStringIsSortedStableLabels ==
    cycle.op = "processed" =>
        LET stable == tracker.currently_stable_objects
            str == cycle.current_objects_str
        IN /\ str = none_str <=> stable = {}
           /\ stable # {} =>
                 \E L \in IncreasingListings(stable) :
                     str = join(<<",", " ">>, L)
           /\ cycle.objects_sent # None =>
                 /\ cycle.objects_sent = str
                 /\ Last(objects_log) = str

\* three labels are stable and their string is sent
C17_Witness ==
    /\ cycle.op = "processed"
    /\ tracker.currently_stable_objects = {carro, pessoa, semaforo}
    /\ cycle.objects_sent =
          carro \o <<",", " ">> \o pessoa \o <<",", " ">> \o semaforo
    /\ objects_log[1] = none_str

-----------------------------------------------------------------------------
(* A further claim about ObjectTracker, checked under SpecTracker.         *)

\* C18: after n updates of a tracker of window W the history holds the last
\* min(n, W) inputs, as sets, in arrival order: never more than W, and once
\* full each update drops the oldest.
C18_HistoryIsLastWInputs ==
    LET W == ctor_args.window_size
        n == Len(fed)
        k == Min(n, W)
    IN /\ Len(tracker.history) = k
       /\ Len(tracker.history) <= W
       /\ \A i \in 1..k : tracker.history[i] = ToSet(fed[n - k + i])

\* four different inputs went into a window of two: the two oldest are gone
C18_Witness ==
    /\ ctor_args.window_size = 2
    /\ fed = <<(<<carro>>), (<<pessoa>>), <<>>, (<<carro, pessoa>>)>>
    /\ tracker.history = <<{}, {carro, pessoa}>>

-----------------------------------------------------------------------------
(* A further claim about TextStabilizer.update, checked under SpecText.    *)

Bom_dias == <<"B","o","m"," ","d","i","a","s">>

\* the ratio the send decision computes between a candidate and a sent text
SentRatio(candidate, sent) == fuzz_ratio(lower(candidate), lower(sent))

\* the candidate is stable after the latest call
StableAfterCall ==
    /\ text_stabilizer.current_candidate_text # <<>>
    /\ text_stabilizer.current_candidate_counter >= ctor_args.stability_count

\* nothing was published before the latest call, or the candidate's ratio to
\* the text published last is below the threshold
MayBeEmitted ==
    \/ cycle.before.last_effectively_sent_text = None
    \/ SentRatio(text_stabilizer.current_candidate_text,
                 cycle.before.last_effectively_sent_text)
           < ctor_args.similarity_threshold

\* C19: a call returns a non-empty text only when the candidate is stable;
\* a stable candidate is returned if and only if nothing was published
\* before or its ratio to the text published last is below the threshold,
\* and it then becomes the text published last; a stable candidate that is
\* not returned leaves the text published last unchanged; of two non-empty
\* results with only None results between them, the later is below the
\* threshold against the earlier.
C19_StableCandidateEmittedIffDissimilar ==
    /\ cycle.op = "update" =>
          /\ IsText(cycle.out) => StableAfterCall
          /\ StableAfterCall =>
                /\ cycle.out = text_stabilizer.current_candidate_text
                       <=> MayBeEmitted
                /\ MayBeEmitted =>
                       text_stabilizer.last_effectively_sent_text
                          = text_stabilizer.current_candidate_text
                /\ ~MayBeEmitted =>
                       /\ cycle.out = None
                       /\ text_stabilizer.last_effectively_sent_text
                             = cycle.before.last_effectively_sent_text
    /\ \A i, j \in 1..Len(fed) :
          (/\ i < j
           /\ IsText(fed[i].out)
           /\ IsText(fed[j].out)
           /\ \A k \in (i + 1)..(j - 1) : fed[k].out = None)
          => SentRatio(fed[j].out, fed[i].out) < ctor_args.similarity_threshold

\* "bom dia" was published, "rua sete" was seen once, and "Bom dias" has
\* now been seen twice with 2 as stability count: it is stable, another
\* text than the one published, similar to it, and not returned
C19_Witness ==
    /\ ctor_args.stability_count = 2
    /\ Len(fed) = 5
    /\ fed[2].out = bom_dia
    /\ fed[3].input = rua_sete
    /\ text_stabilizer.current_candidate_text = Bom_dias
    /\ StableAfterCall
    /\ ~MayBeEmitted
    /\ cycle.out = None
    /\ text_stabilizer.last_effectively_sent_text = bom_dia

-----------------------------------------------------------------------------
(* Further claims about ObjectTracker, checked under SpecTracker.          *)

\* a tracker after the updates of inputs, in order
RECURSIVE TrackerFed(_, _)
TrackerFed(t, inputs) ==
    IF Len(inputs) = 0 THEN t
    ELSE TrackerFed(ObjectTracker_update(t, inputs[1]), Tail(inputs))

\* a second tracker, built with the same arguments and fed nothing but the
\* last min(n, W) inputs of the first
TrackerFedRetainedOnly ==
    LET n == Len(fed)
        k == Min(n, ctor_args.window_size)
    IN TrackerFed(ObjectTracker_init(ctor_args.window_size, ctor_args.ratio),
                  SubSeq(fed, n - k + 1, n))

\* C21: the stable set a tracker reports equals the one reported by a tracker
\* of the same parameters that received only the last min(n, W) inputs: what
\* came before them has no influence.
C21_StableSetDependsOnRetainedHistoryOnly ==
    get_stable_objects(tracker) = get_stable_objects(TrackerFedRetainedOnly)

\* with W = 2 and threshold 2, "carro" was stable after the first two
\* inputs and is gone from the report once two inputs without it followed
C21_Witness ==
    /\ ctor_args.window_size = 2
    /\ tracker.stability_count_threshold = 2
    /\ fed = <<(<<carro>>), (<<carro>>), (<<pessoa>>), (<<pessoa>>)>>
    /\ get_stable_objects(tracker) = {pessoa}

-----------------------------------------------------------------------------
(* Further claims about TextStabilizer.update, checked under SpecText.     *)

\* the input of the latest call after whitespace normalisation: the words
\* of the input, one space between them
NormalisedInput == join(<<" ">>, split(cycle.input))

\* the latest call's input is similar to the candidate the call found
InputSimilarToCandidate ==
    /\ cycle.before.current_candidate_text # <<>>
    /\ fuzz_ratio(lower(NormalisedInput),
                  lower(cycle.before.current_candidate_text))
          >= ctor_args.similarity_threshold

\* C25: by the latest call, an empty normalised input left no candidate and
\* count 0; a non-empty input similar to the candidate raised the count by
\* one and left the candidate text as it was; any other non-empty input
\* became the candidate with count 1.  The candidate text is empty exactly
\* when the count is 0.
C25_CandidateTransition ==
    /\ text_stabilizer.current_candidate_text = <<>>
          <=> text_stabilizer.current_candidate_counter = 0
    /\ cycle.op = "update" =>
          IF NormalisedInput = <<>>
          THEN /\ text_stabilizer.current_candidate_text = <<>>
               /\ text_stabilizer.current_candidate_counter = 0
          ELSE IF InputSimilarToCandidate
          THEN /\ text_stabilizer.current_candidate_text
                     = cycle.before.current_candidate_text
               /\ text_stabilizer.current_candidate_counter
                     = cycle.before.current_candidate_counter + 1
          ELSE /\ text_stabilizer.current_candidate_text = NormalisedInput
               /\ text_stabilizer.current_candidate_counter = 1

\* "bom dia" is the candidate; the similar "Bom dias" raised its count to 2
\* and did not replace it, after "rua sete" had been replaced by it
C25_Witness ==
    /\ Len(fed) = 3
    /\ fed[1].input = rua_sete
    /\ fed[2].input = <<" ","b","o","m"," "," ","d","i","a">>
    /\ fed[3].input = Bom_dias
    /\ text_stabilizer.current_candidate_text = bom_dia
    /\ text_stabilizer.current_candidate_counter = 2

\* C30: a call that returns a value (a text or the empty string) changes
\* last_effectively_sent_text, to the value returned; a call that returns
\* None leaves it unchanged.
C30_LastSentChangesExactlyOnOutput ==
    cycle.op = "update" =>
        IF cycle.out # None
        THEN /\ text_stabilizer.last_effectively_sent_text = cycle.out
             /\ text_stabilizer.last_effectively_sent_text
                   # cycle.before.last_effectively_sent_text
        ELSE text_stabilizer.last_effectively_sent_text
                = cycle.before.last_effectively_sent_text

\* a text was returned, then the empty string, and the latest call, with no
\* text again, returned None and left the empty string as the last one sent
C30_Witness ==
    /\ Len(fed) = 3
    /\ fed[1].out = bom_dia
    /\ fed[2].out = <<>>
    /\ fed[3].out = None
    /\ text_stabilizer.last_effectively_sent_text = <<>>

-----------------------------------------------------------------------------
(* Further claims about the objects channel, checked under Spec.           *)

\* C26: after every processed cycle the value sent last on the objects
\* channel is the formatted stable set of the tracker; last_sent_objects_str
\* is that value, and None exactly while nothing has been sent, which is so
\* only before the first processed cycle; it changes only in a step that
\* sends its new value.
C26_LastSentIsTheFormattedStableSet ==
    /\ [](cycle.op = "processed" =>
             /\ Len(objects_log) > 0
             /\ Last(objects_log)
                   = ObjectsString(tracker.currently_stable_objects))
    /\ [](last_sent_objects_str =
             IF Len(objects_log) = 0 THEN None ELSE Last(objects_log))
    /\ [](last_sent_objects_str = None => Len(tracker.history) = 0)
    /\ [][last_sent_objects_str' # last_sent_objects_str =>
             /\ objects_log' = Append(objects_log, last_sent_objects_str')
             /\ characteristic_objects'.value = Bytes(last_sent_objects_str')]_vars

\* two values were sent and the latest processed cycle sent nothing: the
\* stable set is still the one of the second value
C26_Witness ==
    /\ cycle.op = "processed"
    /\ cycle.objects_sent = None
    /\ Len(objects_log) = 2
    /\ last_sent_objects_str = pessoa
    /\ tracker.currently_stable_objects = {pessoa}

\* the processed cycles so far, counted by the tracker's updates
TrackerUpdates == Len(tracker.history)

\* C28: with W = 5 and ratio 0.6 the threshold is 3; the first value sent on
\* the objects channel is "none" whatever the first processed cycle detected,
\* and while fewer than 3 processed cycles have run the stable set is empty
\* and nothing but "none" has been sent.
C28_NoLabelBeforeThresholdCycles ==
    /\ tracker.stability_count_threshold = 3
    /\ Len(objects_log) > 0 => objects_log[1] = none_str
    /\ cycle.op = "processed" /\ TrackerUpdates = 1 =>
          cycle.objects_sent = none_str
    /\ TrackerUpdates < tracker.stability_count_threshold =>
          /\ tracker.currently_stable_objects = {}
          /\ \A i \in 1..Len(objects_log) : objects_log[i] = none_str

\* three labels were detected from the first processed cycle on: "none" was
\* sent first, and the labels on the third processed cycle
C28_Witness ==
    /\ cycle.op = "processed"
    /\ TrackerUpdates = 3
    /\ tracker.history[1] = {carro, pessoa, semaforo}
    /\ objects_log[1] = none_str
    /\ Len(objects_log) = 2
    /\ cycle.objects_sent = objects_log[2]
    /\ tracker.currently_stable_objects = {carro, pessoa, semaforo}

-----------------------------------------------------------------------------
(* Claims about Characteristic.send_update, checked under SpecGatt.        *)

\* the signals emitted by the latest call
SignalsOfLatestCall ==
    SubSeq(characteristic_objects.signals,
           Len(cycle.before.signals) + 1,
           Len(characteristic_objects.signals))

\* the bytes of a value: the code point of each of its characters
CodePointsOf(value) == [i \in 1..Len(value) |-> CodePoints[value[i]]]

C27_OneNotificationPerSend ==
    cycle.op = "send_update" /\ cycle.before.notifying =>
        SignalsOfLatestCall = <<CodePointsOf(cycle.value)>>

-----------------------------------------------------------------------------
(* A claim about the text channel, checked under SpecTextChannel.          *)

\* C24: of two texts sent one after the other on the text channel, the
\* later one is below the similarity threshold against the earlier one; in
\* particular they are never the same string.
C24_NoSimilarTextsInARow ==
    \A i \in 1..(Len(texts_log) - 1) :
        /\ texts_log[i + 1] # texts_log[i]
        /\ fuzz_ratio(lower(texts_log[i + 1]), lower(texts_log[i]))
              < MIN_TEXT_SIMILARITY_RATIO

-----------------------------------------------------------------------------
(* Claims about the connectivity check and its thread, checked under       *)
(* SpecNet.                                                                *)

\* a line of the output starts here: at the first character that is not
\* white space, or right after a line feed
LineStartsAt(stdout, i) ==
    \/ \A j \in 1..(i - 1) : stdout[j] \in WhitespaceChars
    \/ i > 1 /\ stdout[i - 1] = "\n"

\* the output reports an active connection: "yes:" at the start of a line
ReportsActiveConnection(stdout) ==
    \E i \in 1..(Len(stdout) - 3) :
        /\ LineStartsAt(stdout, i)
        /\ SubSeq(stdout, i, i + 3) = <<"y","e","s",":">>

\* C23: is_internet_available never raises to its caller; when the command
\* fails, the tool is missing or anything else is raised, it returns False;
\* it returns True only when the command succeeded and its output has a
\* line of an active connection.
C23_CheckNeverRaisesAndFailsToFalse ==
    cycle.op = "check" =>
        /\ cycle.result.raised = NotRaised
        /\ cycle.result.value \in BOOLEAN
        /\ cycle.run.raises # NotRaised => cycle.result.value = FALSE
        /\ cycle.result.value = TRUE =>
              /\ cycle.run.raises = NotRaised
              /\ ReportsActiveConnection(cycle.run.stdout)

\* the second check of a run: its command raised something other than the
\* two named exceptions, False was returned and the thread went on to wait
C23_Witness ==
    /\ cycle.op = "check"
    /\ cycle.run.raises = "UnicodeDecodeError"
    /\ cycle.result = [raised |-> NotRaised, value |-> FALSE]
    /\ updater.pc = "wait"
    /\ shared_state.internet_connected = FALSE
    /\ Len(SelectSeq(fed, LAMBDA e : e = "checked")) = 2

\* the positions of fed at which a set() took effect after the start of the
\* most recent check
SetsAfterLatestCheckStart ==
    {i \in 1..Len(fed) :
        /\ fed[i] = "set"
        /\ \A j \in (i + 1)..Len(fed) : fed[j] # "check"}

\* C29: whenever the updater is blocked in event.wait with the event
\* cleared, every set() issued so far took effect before the start of the
\* most recent check, so a check has started after each of them.
C29_NoWakeUpIsLost ==
    (updater.pc = "wait" /\ ~internet_check_event) =>
        SetsAfterLatestCheckStart = {}

\* a set() that took effect between the return of wait and clear(), and was
\* erased by that clear(): the check that follows started after it, and the
\* thread is blocked again with the event cleared
C29_Witness ==
    /\ updater.pc = "wait"
    /\ ~internet_check_event
    /\ fed = <<"check", "checked", "woke", "set", "clear", "check", "checked">>

=============================================================================
